---- MODULE Spec2Model ----
(***************************************************************************)
(* Model of ikota3/images_utility: the title and author formatting of      *)
(* src/epub_info.py and the directory compression of src/compress_dir.py.  *)
(*                                                                         *)
(* A Python str is a sequence of Unicode code points (naturals).  The      *)
(* regular expressions of the source are written as syntax trees and run   *)
(* by a backtracking matcher that follows the priorities of Python's re    *)
(* module (leftmost match, alternatives in order, greedy and lazy          *)
(* repetition, look-ahead, capture groups).                                *)
(***************************************************************************)
EXTENDS Integers, Sequences, FiniteSets, TLC

(***************************************************************************)
(* Regular-expression syntax trees.                                        *)
(***************************************************************************)
\* Every node also records whether it matches the empty string (nul) and
\* which characters a non-empty match of it can start with (first; wild: any
\* character but \n), so that the matcher gives up at once where it cannot
\* match.
RECURSIVE CatNul(_, _), CatFirst(_, _), CatWild(_, _)
CatNul(rs, k) == k > Len(rs) \/ (rs[k].nul /\ CatNul(rs, k + 1))
CatFirst(rs, k) ==
  IF k > Len(rs) THEN {}
  ELSE rs[k].first \cup (IF rs[k].nul THEN CatFirst(rs, k + 1) ELSE {})
CatWild(rs, k) ==
  k <= Len(rs) /\ (rs[k].wild \/ (rs[k].nul /\ CatWild(rs, k + 1)))

Cls(S) ==      \* [...] : one code point of S
  [t |-> "cls", s |-> S, nul |-> FALSE, first |-> S, wild |-> FALSE]
Dot ==         \* .     : anything but \n
  [t |-> "dot", nul |-> FALSE, first |-> {}, wild |-> TRUE]
Lit(w) ==      \* a literal string
  [t |-> "lit", w |-> w, nul |-> w = <<>>,
   first |-> IF w = <<>> THEN {} ELSE {w[1]}, wild |-> FALSE]
Cat(rs) ==     \* r1 r2 ... rn
  [t |-> "cat", rs |-> rs, nul |-> CatNul(rs, 1),
   first |-> CatFirst(rs, 1), wild |-> CatWild(rs, 1)]
Alt(rs) ==     \* r1 | r2 | ... | rn
  [t |-> "alt", rs |-> rs, nul |-> \E k \in DOMAIN rs : rs[k].nul,
   first |-> UNION {rs[k].first : k \in DOMAIN rs},
   wild |-> \E k \in DOMAIN rs : rs[k].wild]
Rep(r, greedy) ==
  [t |-> "star", r |-> r, greedy |-> greedy, nul |-> TRUE,
   first |-> r.first, wild |-> r.wild]
Star(r) == Rep(r, TRUE)                        \* r*
StarLazy(r) == Rep(r, FALSE)                   \* r*?
Plus(r) == Cat(<<r, Star(r)>>)                 \* r+
PlusLazy(r) == Cat(<<r, StarLazy(r)>>)         \* r+?
Opt(r) == Alt(<<r, Cat(<<>>)>>)                \* r?
Grp(r) ==      \* (r), the capture group 1
  [t |-> "grp", r |-> r, nul |-> r.nul, first |-> r.first, wild |-> r.wild]
Ahead(r) ==    \* (?=r)
  [t |-> "ahead", r |-> r, nul |-> TRUE, first |-> {}, wild |-> FALSE]

\* Whether r can match at offset i of s at all.
CanStart(r, s, i) ==
  r.nul \/ (i < Len(s) /\ (s[i + 1] \in r.first \/ (r.wild /\ s[i + 1] # 10)))

NoGroup == <<0, 0>>

(***************************************************************************)
(* M(r, s, i, g): every way r matches s from offset i (i characters        *)
(* consumed), as the sequence of <<end offset, span of group 1>> in the    *)
(* order in which a backtracking matcher tries them.  The first element    *)
(* is the match re reports.                                                *)
(***************************************************************************)
RECURSIVE M(_, _, _, _), MCat(_, _, _, _, _), BindCat(_, _, _, _, _),
          MAlt(_, _, _, _, _), BindStar(_, _, _, _, _)

M(r, s, i, g) ==
  IF ~CanStart(r, s, i) THEN <<>> ELSE
  CASE r.t = "cls" ->
         IF i < Len(s) /\ s[i + 1] \in r.s THEN << <<i + 1, g>> >> ELSE <<>>
    [] r.t = "dot" ->
         IF i < Len(s) /\ s[i + 1] # 10 THEN << <<i + 1, g>> >> ELSE <<>>
    [] r.t = "lit" ->
         IF i + Len(r.w) <= Len(s) /\ \A j \in 1..Len(r.w) : s[i + j] = r.w[j]
         THEN << <<i + Len(r.w), g>> >> ELSE <<>>
    [] r.t = "cat" -> MCat(r.rs, 1, s, i, g)
    [] r.t = "alt" -> MAlt(r.rs, 1, s, i, g)
    [] r.t = "star" ->
         LET more == BindStar(M(r.r, s, i, g), 1, r, s, i)
         IN  IF r.greedy THEN more \o << <<i, g>> >> ELSE << <<i, g>> >> \o more
    [] r.t = "grp" ->
         LET res == M(r.r, s, i, g)
         IN  [k \in DOMAIN res |-> <<res[k][1], <<i, res[k][1]>>>>]
    [] r.t = "ahead" ->
         IF M(r.r, s, i, g) # <<>> THEN << <<i, g>> >> ELSE <<>>

MCat(rs, k, s, i, g) ==
  IF k > Len(rs) THEN << <<i, g>> >>
  ELSE BindCat(M(rs[k], s, i, g), 1, rs, k + 1, s)

BindCat(res, j, rs, k, s) ==
  IF j > Len(res) THEN <<>>
  ELSE MCat(rs, k, s, res[j][1], res[j][2]) \o BindCat(res, j + 1, rs, k, s)

MAlt(rs, k, s, i, g) ==
  IF k > Len(rs) THEN <<>>
  ELSE M(rs[k], s, i, g) \o MAlt(rs, k + 1, s, i, g)

BindStar(res, j, r, s, i) ==
  IF j > Len(res) THEN <<>>
  ELSE (IF res[j][1] > i THEN M(r, s, res[j][1], res[j][2]) ELSE <<>>)
       \o BindStar(res, j + 1, r, s, i)

(***************************************************************************)
(* re.search(r, s): the leftmost match, <<start, end, group 1>>, or <<>>   *)
(* for None.                                                               *)
(***************************************************************************)
RECURSIVE SearchFrom(_, _, _)
SearchFrom(r, s, i) ==
  IF i > Len(s) THEN <<>>
  ELSE LET res == M(r, s, i, NoGroup)
       IN  IF res # <<>> THEN <<i, res[1][1], res[1][2]>>
           ELSE SearchFrom(r, s, i + 1)

Search(r, s) == SearchFrom(r, s, 0)

\* match_result.group(1)
Group1(s, m) == SubSeq(s, m[3][1] + 1, m[3][2])

(***************************************************************************)
(* re.sub(r, repl, s): the scan finds the non-overlapping matches from     *)
(* left to right (SubSpans: <<start, end, group 1>> each), and every match *)
(* is replaced.  repl is a constant string ("const") or the function of    *)
(* the source, lambda m: chr(ord(m.group(0)) + d) ("shift").  No pattern   *)
(* of the source matches the empty string.                                 *)
(***************************************************************************)
Const(w) == [k |-> "const", v |-> w]
Shift(d) == [k |-> "shift", d |-> d]

Replacement(rep, s, m) ==
  IF rep.k = "const" THEN rep.v ELSE <<s[m[1] + 1] + rep.d>>

RECURSIVE SpansFrom(_, _, _)
SpansFrom(r, s, i) ==
  IF i >= Len(s) THEN <<>>
  ELSE LET res == M(r, s, i, NoGroup)
       IN  IF res # <<>> /\ res[1][1] > i
           THEN << <<i, res[1][1], res[1][2]>> >> \o SpansFrom(r, s, res[1][1])
           ELSE SpansFrom(r, s, i + 1)

SubSpans(r, s) == SpansFrom(r, s, 0)

\* s with the spans from the k-th on replaced; pos is the offset reached
RECURSIVE Splice(_, _, _, _, _)
Splice(s, spans, rep, k, pos) ==
  IF k > Len(spans) THEN SubSeq(s, pos + 1, Len(s))
  ELSE SubSeq(s, pos + 1, spans[k][1]) \o Replacement(rep, s, spans[k])
       \o Splice(s, spans, rep, k + 1, spans[k][2])

Sub(r, rep, s) == Splice(s, SubSpans(r, s), rep, 1, 0)

(***************************************************************************)
(* Character classes of Python's re on str patterns.                       *)
(***************************************************************************)
\* \s : the code points for which str.isspace() holds
Space == (9..13) \cup (28..32) \cup {133, 160, 5760} \cup (8192..8202)
         \cup {8232, 8233, 8239, 8287, 12288}
\* \d : decimal digits (category Nd): ASCII, and of the other scripts'
\* blocks the Arabic-Indic and the full-width one
Digit == (48..57) \cup (1632..1641) \cup (65296..65305)
S0 == Star(Cls(Space))     \* \s*
S1 == Plus(Cls(Space))     \* \s+
D1 == Plus(Cls(Digit))     \* \d+
Epub == Lit(<<46, 101, 112, 117, 98>>)   \* \.epub
Kan == Cls({24059})                       \* the volume marker 巻

\* int(text) of a run of decimal digits
DigitValue(c) == IF c \in 48..57 THEN c - 48
                 ELSE IF c \in 1632..1641 THEN c - 1632 ELSE c - 65296
RECURSIVE IntOf(_)
IntOf(ds) == IF ds = <<>> THEN 0
             ELSE 10 * IntOf(SubSeq(ds, 1, Len(ds) - 1)) + DigitValue(ds[Len(ds)])
\* str(n) of a natural
RECURSIVE StrOf(_)
StrOf(n) == IF n < 10 THEN <<48 + n>> ELSE StrOf(n \div 10) \o <<48 + (n % 10)>>
\* text.zfill(2)
Zfill2(w) == IF Len(w) >= 2 THEN w ELSE [k \in 1..(2 - Len(w)) |-> 48] \o w

(***************************************************************************)
(* src/epub_info.py                                                        *)
(***************************************************************************)
FWShift == 65248    \* 0xFEE0

\* [Ａ-ｚ０-９]: the two letter ranges written as one
FullwidthAlnumOneRange == Cls((65313..65370) \cup (65296..65305))
\* [Ａ-Ｚａ-ｚ０-９]
FullwidthAlnum == Cls((65313..65338) \cup (65345..65370) \cup (65296..65305))
replace_fullwidth_alpha_numeral_to_halfwidth(text) ==
  Sub(FullwidthAlnum, Shift(0 - FWShift), text)

\* the nine symbols the docstring lists: the class without '|'
UnsafeSymbolAsDocumented == Cls({60, 62, 58, 34, 47, 92, 33, 63, 42})
\* [<>:"\/\\|!?*]
UnsafeSymbol == Cls({60, 62, 58, 34, 47, 92, 124, 33, 63, 42})
replace_unsafe_symbol_to_safe_symbol(text) ==
  Sub(UnsafeSymbol, Shift(FWShift), text)

\* [（）]
FullwidthRoundBracket == Cls({65288, 65289})
replace_fullwidth_round_brackets_to_halfwidth(text) ==
  Sub(FullwidthRoundBracket, Shift(0 - FWShift), text)

\* \s*\(\s*(\d+)\s*\)\s+
ParenSearch1 == Cat(<<S0, Lit(<<40>>), S0, Grp(D1), S0, Lit(<<41>>), S1>>)
\* \s*\(\s*\d+\s*\)\s*
ParenSub1 == Cat(<<S0, Lit(<<40>>), S0, D1, S0, Lit(<<41>>), S0>>)
\* \s*\(\s*(\d+)\s*\)\s*\.epub
ParenSearch2 == Cat(<<S0, Lit(<<40>>), S0, Grp(D1), S0, Lit(<<41>>), S0, Epub>>)
\* \s*\(\s*\d+\s*\)\s*\.epub : the extension matched, not looked ahead at
ParenSub2WithExtension == Cat(<<S0, Lit(<<40>>), S0, D1, S0, Lit(<<41>>), S0, Epub>>)
\* \s*\(\s*\d+\s*\)\s*(?=\.epub)
ParenSub2 == Cat(<<S0, Lit(<<40>>), S0, D1, S0, Lit(<<41>>), S0, Ahead(Epub)>>)

\* a zero put before the matched text, whatever its length and value
PaddedNumberPrepend(digits) == <<48>> \o digits
\* str(int(match_result.group(1))).zfill(2)
PaddedNumber(digits) == Zfill2(StrOf(IntOf(digits)))

PadParenFollowedBySpace(text) ==
  LET match_result == Search(ParenSearch1, text)
      number == <<32>> \o PaddedNumber(Group1(text, match_result)) \o <<32>>
  IN  IF match_result # <<>> THEN Sub(ParenSub1, Const(number), text) ELSE text

PadParenBeforeExtension(text) ==
  LET match_result == Search(ParenSearch2, text)
      number == <<32>> \o PaddedNumber(Group1(text, match_result))
  IN  IF match_result # <<>> THEN Sub(ParenSub2, Const(number), text) ELSE text

pad_numeric_only_string_enclosed_in_round_brackets(text) ==
  PadParenBeforeExtension(PadParenFollowedBySpace(text))

\* 壱 弐 参 肆 伍 陸 漆 捌 玖 拾 什
kanji_numbers ==
  <<22769, 24336, 21442, 32902, 20237, 38520, 28422, 25420, 29590, 25342, 20160>>
\* dict(zip(kanji_numbers, map(str, range(1, 12)))).get(c): the eleventh
\* numeral numbered on
kanji_mapping_counted(c) ==
  IF \E k \in DOMAIN kanji_numbers : kanji_numbers[k] = c
  THEN StrOf(CHOOSE k \in DOMAIN kanji_numbers : kanji_numbers[k] = c)
  ELSE <<78, 111, 110, 101>>
\* dict(zip(kanji_numbers, list(map(str, range(1, 11))) + ['10'])).get(c):
\* the decimal string, or None for a character that is no key
kanji_mapping(c) ==
  IF \E k \in DOMAIN kanji_numbers : kanji_numbers[k] = c
  THEN LET k == CHOOSE k \in DOMAIN kanji_numbers : kanji_numbers[k] = c
       IN  IF k <= 10 THEN StrOf(k) ELSE <<49, 48>>
  ELSE <<78, 111, 110, 101>>    \* f'{None}' is 'None'
\* '[' + '|'.join(kanji_numbers) + ']' : the class holds the numerals and '|'
KanjiClass == Cls({kanji_numbers[k] : k \in DOMAIN kanji_numbers} \cup {124})
\* \s*([壱|...|什])\s*巻?\s*
KanjiSearch == Cat(<<S0, Grp(KanjiClass), S0, Opt(Kan), S0>>)
\* \s*[壱|...|什]\s*巻?\s*
KanjiSub == Cat(<<S0, KanjiClass, S0, Opt(Kan), S0>>)

pad_kanji_number(text) ==
  LET match_result == Search(KanjiSearch, text)
      number == <<32>> \o kanji_mapping(Group1(text, match_result)[1]) \o <<32>>
  IN  IF match_result # <<>> THEN Sub(KanjiSub, Const(number), text) ELSE text

format_book_author(book_author) ==
  replace_unsafe_symbol_to_safe_symbol(
    replace_fullwidth_alpha_numeral_to_halfwidth(book_author))

\* (付き|増量版|無料版|出版|誌版|特別版|特典付き|漫画付き): no optional last character
SuffixTokensLong == Alt(<<
   Lit(<<20184, 12365>>), Lit(<<22679, 37327, 29256>>), Lit(<<28961, 26009, 29256>>),
   Lit(<<20986, 29256>>), Lit(<<35468, 29256>>), Lit(<<29305, 21029, 29256>>),
   Lit(<<29305, 20856, 20184, 12365>>), Lit(<<28459, 30011, 20184, 12365>>) >>)
\* 【.+?(付き|増量版|無料版?|出版|誌版|特別版?|特典付き?|漫画付き?)】
SuffixTokens == Alt(<<
   Lit(<<20184, 12365>>),                                    \* 付き
   Lit(<<22679, 37327, 29256>>),                             \* 増量版
   Cat(<<Lit(<<28961, 26009>>), Opt(Lit(<<29256>>))>>),      \* 無料版?
   Lit(<<20986, 29256>>),                                    \* 出版
   Lit(<<35468, 29256>>),                                    \* 誌版
   Cat(<<Lit(<<29305, 21029>>), Opt(Lit(<<29256>>))>>),      \* 特別版?
   Cat(<<Lit(<<29305, 20856, 20184>>), Opt(Lit(<<12365>>))>>),   \* 特典付き?
   Cat(<<Lit(<<28459, 30011, 20184>>), Opt(Lit(<<12365>>))>>) >>)  \* 漫画付き?
LenticularAnnotation ==
  Cat(<<Lit(<<12304>>), PlusLazy(Dot), SuffixTokens, Lit(<<12305>>)>>)

\* [(＜〈].*?(BOOKS|...|編集部)[〉＞)]
LabelTokens == Alt(<<
   Lit(<<66, 79, 79, 75, 83>>),                              \* BOOKS
   Lit(<<67, 114, 101, 97, 116, 105, 118, 101>>),            \* Creative
   Cat(<<Lit(<<68, 88>>), Opt(Lit(<<29256>>))>>),            \* DX版?
   Lit(<<71, 65, 77, 69, 83>>),                              \* GAMES
   Lit(<<74, 79, 75, 69, 82>>),                              \* JOKER
   Lit(<<78, 101, 116, 119, 111, 114, 107>>),                \* Network
   Lit(<<78, 79, 86, 69, 76, 83>>),                          \* NOVELS
   Lit(<<78, 79, 86, 69, 76, 32, 48>>),                      \* NOVEL 0
   Lit(<<80, 117, 98, 108, 105, 115, 104, 105, 110, 103>>),  \* Publishing
   Lit(<<12456, 12452, 12472>>),                             \* エイジ
   Lit(<<12456, 12463, 12473, 12488, 12521>>),               \* エクストラ
   Lit(<<12467, 12511, 12483, 12463>>),                      \* コミック
   Lit(<<12471, 12522, 12540, 12474>>),                      \* シリーズ
   Lit(<<12473>>),                                           \* ス
   Lit(<<12494, 12505, 12523, 12474>>),                      \* ノベルズ
   Lit(<<12521, 12494, 12505>>),                             \* ラノベ
   Lit(<<38480, 23450, 29256>>),                             \* 限定版
   Lit(<<23567, 35500>>),                                    \* 小説
   Lit(<<26032, 35013, 29256>>),                             \* 新装版
   Lit(<<38651, 23376, 29256>>),                             \* 電子版
   Lit(<<29305, 20856, 20184, 12365>>),                      \* 特典付き
   Lit(<<29305, 21029, 29256>>),                             \* 特別版
   Lit(<<25991, 33464>>),                                    \* 文芸
   Cat(<<Lit(<<25991, 24235>>), Opt(Lit(<<74>>))>>),         \* 文庫J?
   Lit(<<32232, 38598, 37096>>) >>)                          \* 編集部
OpenBracketRound == Cls({40})                 \* [(] : the round bracket alone
OpenBracket == Cls({40, 65308, 12296})     \* [(＜〈]
CloseBracket == Cls({12297, 65310, 41})    \* [〉＞)]
LabelAnnotation == Cat(<<OpenBracket, StarLazy(Dot), LabelTokens, CloseBracket>>)

StripLenticularAnnotation(text) == Sub(LenticularAnnotation, Const(<<>>), text)
StripLabelAnnotation(text) == Sub(LabelAnnotation, Const(<<>>), text)
\* re.sub(r'[：:]', ' ', book_title)
ColonToSpace(text) == Sub(Cls({65306, 58}), Const(<<32>>), text)
\* re.sub(r'\s+', ' ', book_title)
CollapseSpaces(text) == Sub(S1, Const(<<32>>), text)

\* \s*([①-⑨])\s*巻?\s* and its three siblings: lo..hi is the class, offset
\* the number subtracted from the code point
SymbolSearch(lo, hi) == Cat(<<S0, Grp(Cls(lo..hi)), S0, Opt(Kan), S0>>)
SymbolSub(lo, hi) == Cat(<<S0, Cls(lo..hi), S0, Opt(Kan), S0>>)
PadSymbolNumber(lo, hi, offset, text) ==
  LET match_result == Search(SymbolSearch(lo, hi), text)
      number == <<32>> \o Zfill2(<<Group1(text, match_result)[1] - offset>>) \o <<32>>
  IN  IF match_result # <<>> THEN Sub(SymbolSub(lo, hi), Const(number), text)
      ELSE text
PadCircled(text) == PadSymbolNumber(9312, 9320, 9263, text)         \* ①-⑨, 0x242F
PadParenthesized(text) == PadSymbolNumber(9332, 9340, 9283, text)   \* ⑴-⑼, 0x2443
PadFullStop(text) == PadSymbolNumber(9352, 9360, 9303, text)        \* ⒈-⒐, 0x2457
PadDoubleCircled(text) == PadSymbolNumber(9461, 9469, 9412, text)   \* ⓵-⓽, 0x24C4

\* (?<=\s)?(\d+)(?=巻?\s*\.epub) : the optional look-behind never fails
BareSearch == Cat(<<Grp(D1), Ahead(Cat(<<Opt(Kan), S0, Epub>>))>>)
\* \s*\d+巻?\s*(?=\.epub)
BareSub == Cat(<<S0, D1, Opt(Kan), S0, Ahead(Epub)>>)
PadBeforeExtension(text) ==
  LET match_result == Search(BareSearch, text)
      number == <<32>> \o PaddedNumber(Group1(text, match_result))
  IN  IF match_result # <<>> THEN Sub(BareSub, Const(number), text) ELSE text

\* the last statement left out
NoStripBeforeExtension(text) == text
\* re.sub(r'\s+(?=\.epub)', '', book_title)
StripSpaceBeforeExtension(text) == Sub(Cat(<<S1, Ahead(Epub)>>), Const(<<>>), text)

\* The stages of format_book_title, in the order of the source.
Stage(k, text) ==
  CASE k = 1 -> replace_fullwidth_alpha_numeral_to_halfwidth(text)
    [] k = 2 -> replace_unsafe_symbol_to_safe_symbol(text)
    [] k = 3 -> replace_fullwidth_round_brackets_to_halfwidth(text)
    [] k = 4 -> StripLenticularAnnotation(text)
    [] k = 5 -> StripLabelAnnotation(text)
    [] k = 6 -> ColonToSpace(text)
    [] k = 7 -> CollapseSpaces(text)
    [] k = 8 -> pad_numeric_only_string_enclosed_in_round_brackets(text)
    [] k = 9 -> pad_kanji_number(text)
    [] k = 10 -> PadCircled(text)
    [] k = 11 -> PadParenthesized(text)
    [] k = 12 -> PadFullStop(text)
    [] k = 13 -> PadDoubleCircled(text)
    [] k = 14 -> PadBeforeExtension(text)
    [] k = 15 -> CollapseSpaces(text)
    [] k = 16 -> StripSpaceBeforeExtension(text)

RECURSIVE RunStages(_, _)
RunStages(k, text) ==
  IF k = 0 THEN text
  ELSE CHOOSE out \in {Stage(k, t) : t \in {RunStages(k - 1, text)}} : TRUE
format_book_title(book_title) == RunStages(16, book_title)

(***************************************************************************)
(* The state.                                                              *)
(*                                                                         *)
(* One call of format_book_title: title is the argument, book_title the    *)
(* local variable the statements rewrite, stage the number of statements   *)
(* that have run.  One call of format_book_author: author, book_author,    *)
(* author_stage likewise.                                                  *)
(*                                                                         *)
(* One run of CompressDir.compress: the fields input_dir, output_dir,      *)
(* format_type and yes of the object, the file system (tree: the content   *)
(* of each directory below each root directory; archives: the content of   *)
(* each archive file written), the local variable dirs, the number done of *)
(* loop iterations completed and the position cpc in the method.           *)
(*                                                                         *)
(* One run of EPubInfo.unpack: what input_dir_or_file names (input_kind)   *)
(* and holds (listing), the output_dir argument (output_arg), the files    *)
(* and directories below the output directory (out_files, out_dirs, paths  *)
(* relative to it), the loop variable (file_index), the local variable     *)
(* imagepaths_in_epub, the number of images extracted, the position upc in *)
(* the method, and steps, the steps completed for the file being handled.  *)
(***************************************************************************)
VARIABLES title, book_title, stage,
          author, book_author, author_stage,
          input_dir, output_dir, format_type, yes, tree, archives, dirs, done, cpc,
          input_kind, listing, output_arg, out_files, out_dirs, file_index,
          imagepaths_in_epub, extracted, upc, steps

tvars == <<title, book_title, stage>>
avars == <<author, book_author, author_stage>>
cvars == <<input_dir, output_dir, format_type, yes, tree, archives, dirs, done, cpc>>
uvars == <<input_kind, listing, output_arg, out_files, out_dirs, file_index,
           imagepaths_in_epub, extracted, upc, steps>>
vars == <<tvars, avars, cvars, uvars>>

\* the part of the state a specification does not use
NoTitle == title = <<>> /\ book_title = <<>> /\ stage = 0
NoAuthor == author = <<>> /\ book_author = <<>> /\ author_stage = 0
NoCompress ==
  /\ input_dir = "" /\ output_dir = "" /\ format_type = "" /\ yes = FALSE
  /\ tree = <<>> /\ archives = <<>> /\ dirs = <<>> /\ done = 0 /\ cpc = "idle"
NoUnpack ==
  /\ input_kind = "" /\ listing = <<>> /\ output_arg = ""
  /\ out_files = {} /\ out_dirs = {} /\ file_index = 0
  /\ imagepaths_in_epub = <<>> /\ extracted = 0 /\ upc = "idle" /\ steps = <<>>

\* Every string that is at most n fragments of F, one after the other.
RECURSIVE Words(_, _)
Words(F, n) ==
  IF n = 0 THEN {<<>>}
  ELSE LET shorter == Words(F, n - 1)
       IN  shorter \cup {w \o f : w \in shorter, f \in F}

Step(k) ==
  /\ stage = k - 1
  /\ book_title' = Stage(k, book_title)
  /\ stage' = k
  /\ UNCHANGED <<title, avars, cvars, uvars>>

FullwidthToHalfwidth == Step(1)
UnsafeToSafe == Step(2)
RoundBracketsToHalfwidth == Step(3)
StripLenticular == Step(4)
StripLabel == Step(5)
Colons == Step(6)
Collapse == Step(7)
PadRoundBrackets == Step(8)
PadKanji == Step(9)
PadCircledDigit == Step(10)
PadParenthesizedDigit == Step(11)
PadFullStopDigit == Step(12)
PadDoubleCircledDigit == Step(13)
PadBareNumber == Step(14)
CollapseAgain == Step(15)
StripBeforeExtension == Step(16)

NextTitle ==
  \/ FullwidthToHalfwidth
  \/ UnsafeToSafe
  \/ RoundBracketsToHalfwidth
  \/ StripLenticular
  \/ StripLabel
  \/ Colons
  \/ Collapse
  \/ PadRoundBrackets
  \/ PadKanji
  \/ PadCircledDigit
  \/ PadParenthesizedDigit
  \/ PadFullStopDigit
  \/ PadDoubleCircledDigit
  \/ PadBareNumber
  \/ CollapseAgain
  \/ StripBeforeExtension

TitleInit(T) ==
  /\ title \in T
  /\ book_title = title
  /\ stage = 0
  /\ NoAuthor
  /\ NoCompress
  /\ NoUnpack

(***************************************************************************)
(* format_book_author, statement by statement.                             *)
(***************************************************************************)
AuthorInit(A) ==
  /\ author \in A
  /\ book_author = author
  /\ author_stage = 0
  /\ NoTitle
  /\ NoCompress
  /\ NoUnpack

AuthorFullwidthToHalfwidth ==
  /\ author_stage = 0
  /\ book_author' = replace_fullwidth_alpha_numeral_to_halfwidth(book_author)
  /\ author_stage' = 1
  /\ UNCHANGED <<author, tvars, cvars, uvars>>

AuthorUnsafeToSafe ==
  /\ author_stage = 1
  /\ book_author' = replace_unsafe_symbol_to_safe_symbol(book_author)
  /\ author_stage' = 2
  /\ UNCHANGED <<author, tvars, cvars, uvars>>

NextAuthor == AuthorFullwidthToHalfwidth \/ AuthorUnsafeToSafe

(***************************************************************************)
(* src/compress_dir.py                                                     *)
(*                                                                         *)
(* The file system holds the root directories Roots; a path argument may   *)
(* also name no directory ("missing").  Below a root there may be a        *)
(* directory of each name of Names; tree[r][n] is what r/n holds, or       *)
(* "none" when there is no directory r/n.  archives[r][n] is what the      *)
(* archive r/n.zip holds, or "none" when there is no such file.            *)
(***************************************************************************)
MaxNames == 2
Roots == {"A", "B"}
Names == 1..MaxNames
Contents == {"x", "y"}
SUPPORTED_FORMAT_TYPES == {"zip"}

\* str.lower() on the format types tried
Lower(f) == IF f = "ZIP" THEN "zip" ELSE f
\* validator.is_dir
is_dir(path) == path \in Roots

\* every order in which os.listdir may return the set S of names
Orders(S) ==
  { o \in [1..Cardinality(S) -> S] : \A i, j \in 1..Cardinality(S) : o[i] = o[j] => i = j }

\* CompressDir(input_dir, output_dir, format_type, yes)
CompressInit ==
  /\ \E i \in Roots \cup {"missing"}, o \in Roots \cup {"missing", ""} :
       /\ input_dir = i
       /\ output_dir = IF o # "" THEN o ELSE i
  /\ \E f \in {"zip", "ZIP", "tar"} : format_type = Lower(f)
  /\ yes \in BOOLEAN
  /\ tree \in [Roots -> [Names -> Contents \cup {"none"}]]
  /\ archives = [r \in Roots |-> [n \in Names |-> "none"]]
  /\ dirs = <<>>
  /\ done = 0
  /\ cpc = "start"
  /\ NoTitle
  /\ NoAuthor
  /\ NoUnpack

_input_is_valid ==
  /\ is_dir(input_dir)
  /\ is_dir(output_dir)
  /\ format_type \in SUPPORTED_FORMAT_TYPES
  /\ yes \in BOOLEAN

\* if not self._input_is_valid(): return
Validate ==
  /\ cpc = "start"
  /\ cpc' = IF _input_is_valid THEN "list" ELSE "invalid"
  /\ UNCHANGED <<input_dir, output_dir, format_type, yes, tree, archives, dirs, done,
                 tvars, avars, uvars>>

\* dirs = os.listdir(self.input_dir)
ListDir ==
  /\ cpc = "list"
  /\ dirs' \in Orders({n \in Names : tree[input_dir][n] # "none"})
  /\ cpc' = IF yes THEN "loop" ELSE "ask"
  /\ UNCHANGED <<input_dir, output_dir, format_type, yes, tree, archives, done,
                 tvars, avars, uvars>>

\* user_response = ask(): UserResponse.NO returns, any other answer goes on
AskNo ==
  /\ cpc = "ask"
  /\ cpc' = "aborted"
  /\ UNCHANGED <<input_dir, output_dir, format_type, yes, tree, archives, dirs, done,
                 tvars, avars, uvars>>

AskYes ==
  /\ cpc = "ask"
  /\ cpc' = "loop"
  /\ UNCHANGED <<input_dir, output_dir, format_type, yes, tree, archives, dirs, done,
                 tvars, avars, uvars>>

\* shutil.make_archive(base_name=join(output_dir, directory), format=...,
\*                     root_dir=join(output_dir, directory)):
\* the archive base_name.zip of what root_dir holds
MakeArchive ==
  /\ cpc = "loop"
  /\ done < Len(dirs)
  /\ LET directory == dirs[done + 1]
     IN  /\ tree[output_dir][directory] # "none"
         /\ archives' = [archives EXCEPT ![output_dir][directory] =
                                            tree[output_dir][directory]]
  /\ done' = done + 1
  /\ UNCHANGED <<input_dir, output_dir, format_type, yes, tree, dirs, cpc, tvars, avars, uvars>>

\* make_archive raises (os.stat(root_dir)) when root_dir does not exist
MakeArchiveRaises ==
  /\ cpc = "loop"
  /\ done < Len(dirs)
  /\ tree[output_dir][dirs[done + 1]] = "none"
  /\ cpc' = "raised"
  /\ UNCHANGED <<input_dir, output_dir, format_type, yes, tree, archives, dirs, done,
                 tvars, avars, uvars>>

\* the loop is over
Finish ==
  /\ cpc = "loop"
  /\ done = Len(dirs)
  /\ cpc' = "returned"
  /\ UNCHANGED <<input_dir, output_dir, format_type, yes, tree, archives, dirs, done,
                 tvars, avars, uvars>>

NextCompress ==
  \/ Validate
  \/ ListDir
  \/ AskNo
  \/ AskYes
  \/ MakeArchive
  \/ MakeArchiveRaises
  \/ Finish

SpecCompress == CompressInit /\ [][NextCompress]_vars

(***************************************************************************)
(* EPubInfo.unpack                                                         *)
(*                                                                         *)
(* A path is a string with '/' between its components.  An entry of a      *)
(* directory is a directory or a file: name and ext are what               *)
(* os.path.splitext gives, filelist the member names of the archive when   *)
(* the file is one.                                                        *)
(***************************************************************************)
Slash == 47
\* os.path.join(a, b)
Join(a, b) == a \o <<Slash>> \o b
\* p lies below the directory d
Under(p, d) == Len(p) > Len(d) + 1 /\ SubSeq(p, 1, Len(d) + 1) = d \o <<Slash>>
\* the directories a file of path p is created in
Parents(p) == { SubSeq(p, 1, k - 1) : k \in { j \in 2..Len(p) : p[j] = Slash } }
\* str.split('/')
RECURSIVE SplitFrom(_, _, _)
SplitFrom(p, k, part) ==
  IF k > Len(p) THEN <<part>>
  ELSE IF p[k] = Slash THEN <<part>> \o SplitFrom(p, k + 1, <<>>)
  ELSE SplitFrom(p, k + 1, Append(part, p[k]))
Split(p) == SplitFrom(p, 1, <<>>)
\* str.endswith
endswith(p, w) == Len(w) <= Len(p) /\ SubSeq(p, Len(p) - Len(w) + 1, Len(p)) = w
\* str.upper on ASCII text
upper(w) == [k \in 1..Len(w) |-> IF w[k] \in 97..122 THEN w[k] - 32 ELSE w[k]]

\* ('.jpg', '.jpeg', '.png', '.gif')
ImageSuffixes ==
  { <<46, 106, 112, 103>>, <<46, 106, 112, 101, 103>>, <<46, 112, 110, 103>>,
    <<46, 103, 105, 102>> }
\* [\\\/]public(image|_image| image)s?
PublicImage ==
  Cat(<<Cls({92, 47}), Lit(<<112, 117, 98, 108, 105, 99>>),
        Alt(<<Lit(<<105, 109, 97, 103, 101>>), Lit(<<95, 105, 109, 97, 103, 101>>),
              Lit(<<32, 105, 109, 97, 103, 101>>)>>),
        Opt(Lit(<<115>>))>>)
\* the condition of the list comprehension
IsImagePath(p) ==
  /\ \E w \in ImageSuffixes : endswith(p, w)
  /\ Search(PublicImage, p) = <<>>

\* the extension .EPUB the file name must have
DotEPUB == <<46, 69, 80, 85, 66>>

\* what input_dir_or_file may hold
Directory(n) == [name |-> n, ext |-> <<>>, isdir |-> TRUE, filelist |-> <<>>]
File(n, e, members) == [name |-> n, ext |-> e, isdir |-> FALSE, filelist |-> members]
\* the member names of the archives tried
MembersX ==
  << <<111, 47, 99, 46, 111, 112, 102>>,                      \* o/c.opf
     <<111, 47, 105, 47, 97, 46, 106, 112, 103>>,             \* o/i/a.jpg
     <<111, 47, 105, 47, 98, 46, 112, 110, 103>>,            \* o/i/b.png
     <<111, 47, 112, 117, 98, 108, 105, 99, 105, 109, 97, 103, 101, 115,
        47, 112, 46, 106, 112, 103>> >>                                        \* o/publicimages/p.jpg
MembersY == << <<111, 47, 105, 47, 97, 46, 106, 112, 103>> >>      \* o/i/a.jpg
MembersT == << <<111, 47, 99, 46, 111, 112, 102>> >>               \* o/c.opf
MembersR == << <<99, 46, 106, 112, 103>> >>                       \* c.jpg
MembersS == << <<105, 47, 97, 46, 106, 112, 103>> >>               \* i/a.jpg
Entries ==
  { Directory(<<120>>),                                  \* x/  (a directory)
    File(<<110>>, <<46, 116, 120, 116>>, <<>>),          \* n.txt
    File(<<120>>, <<46, 101, 112, 117, 98>>, MembersX),  \* x.epub
    File(<<121>>, <<46, 69, 112, 117, 98>>, MembersY),   \* y.Epub
    File(<<116>>, <<46, 101, 112, 117, 98>>, MembersT),  \* t.epub, no image
    File(<<114>>, <<46, 101, 112, 117, 98>>, MembersR),  \* r.epub, image at the root
    File(<<115>>, <<46, 101, 112, 117, 98>>, MembersS) } \* s.epub, image one directory deep

MaxFiles == 2
Listings ==
  UNION { { l \in [1..n -> Entries] : \A i, j \in 1..n : l[i] = l[j] => i = j }
          : n \in 0..MaxFiles }

\* EPubInfo(input_dir_or_file).unpack(output_dir): input_dir_or_file names a
\* directory, a file or nothing; output_dir is '', a directory of its own, or
\* no directory
UnpackInit ==
  /\ input_kind \in {"dir", "file", "missing"}
  /\ listing \in Listings
  /\ input_kind = "file" => (Len(listing) = 1 /\ ~listing[1].isdir)
  /\ input_kind = "missing" => listing = <<>>
  /\ output_arg \in {"", "other", "missing"}
  /\ out_files = {}
  /\ out_dirs = {}
  /\ file_index = 0
  /\ imagepaths_in_epub = <<>>
  /\ extracted = 0
  /\ upc = "start"
  /\ steps = <<>>
  /\ NoTitle
  /\ NoAuthor
  /\ NoCompress

\* __common_args_is_valid
common_args_is_valid ==
  /\ input_kind \in {"dir", "file"}
  /\ input_kind = "file" => upper(listing[1].ext) = DotEPUB
\* __unpack_args_is_valid(output_dir), output_dir '' replaced by the input's
\* directory
unpack_args_is_valid ==
  /\ common_args_is_valid
  /\ output_arg # "missing"

\* the entries of the input's directory, which are below output_dir when no
\* other output_dir is given
EntryPath(e) == e.name \o e.ext
Begin ==
  /\ upc = "start"
  /\ IF unpack_args_is_valid
     THEN /\ upc' = "loop"
          /\ out_files' = IF output_arg = ""
                          THEN { EntryPath(listing[k]) :
                                   k \in { j \in DOMAIN listing : ~listing[j].isdir } }
                          ELSE {}
          /\ out_dirs' = IF output_arg = ""
                         THEN { EntryPath(listing[k]) :
                                  k \in { j \in DOMAIN listing : listing[j].isdir } }
                         ELSE {}
     ELSE /\ upc' = "invalid"
          /\ UNCHANGED <<out_files, out_dirs>>
  /\ UNCHANGED <<input_kind, listing, output_arg, file_index, imagepaths_in_epub,
                 extracted, steps, tvars, avars, cvars>>

\* for filename in self.__get_filenames(): the loop is over
Return ==
  /\ upc = "loop"
  /\ file_index = Len(listing)
  /\ upc' = "returned"
  /\ UNCHANGED <<input_kind, listing, output_arg, out_files, out_dirs, file_index,
                 imagepaths_in_epub, extracted, steps, tvars, avars, cvars>>

\* Skip directory or not an EPub file
Skip ==
  /\ upc = "loop"
  /\ file_index < Len(listing)
  /\ LET e == listing[file_index + 1]
     IN  e.isdir \/ upper(e.ext) # DotEPUB
  /\ file_index' = file_index + 1
  /\ UNCHANGED <<input_kind, listing, output_arg, out_files, out_dirs,
                 imagepaths_in_epub, extracted, upc, steps, tvars, avars, cvars>>

\* with zipfile.ZipFile(filepath, ...) as epub_file: imagepaths_in_epub = [...]
Open ==
  /\ upc = "loop"
  /\ file_index < Len(listing)
  /\ LET e == listing[file_index + 1]
     IN  /\ ~(e.isdir \/ upper(e.ext) # DotEPUB)
         /\ imagepaths_in_epub' = SelectSeq(e.filelist, IsImagePath)
  /\ file_index' = file_index + 1
  /\ extracted' = 0
  /\ steps' = <<"open">>
  /\ upc' = "extract"
  /\ UNCHANGED <<input_kind, listing, output_arg, out_files, out_dirs,
                 tvars, avars, cvars>>

\* the file whose members are handled, and its name without extension
basename_without_ext == listing[file_index].name

\* epub_file._extract_member(imagepath_in_epub, output_dir, None)
ExtractMember ==
  /\ upc = "extract"
  /\ extracted < Len(imagepaths_in_epub)
  /\ LET imagepath_in_epub == imagepaths_in_epub[extracted + 1]
     IN  /\ out_files' = out_files \cup {imagepath_in_epub}
         /\ out_dirs' = out_dirs \cup Parents(imagepath_in_epub)
  /\ extracted' = extracted + 1
  /\ UNCHANGED <<input_kind, listing, output_arg, file_index, imagepaths_in_epub,
                 upc, steps, tvars, avars, cvars>>

\* first_directory_name = imagepaths_in_epub[0].split('/')[0]
ExtractComplete ==
  /\ upc = "extract"
  /\ extracted = Len(imagepaths_in_epub)
  /\ imagepaths_in_epub # <<>>
  /\ upc' = "rename"
  /\ steps' = Append(steps, "extract")
  /\ UNCHANGED <<input_kind, listing, output_arg, out_files, out_dirs, file_index,
                 imagepaths_in_epub, extracted, tvars, avars, cvars>>

\* imagepaths_in_epub[0] of an empty list: IndexError, which nothing catches
NoImageRaises ==
  /\ upc = "extract"
  /\ extracted = Len(imagepaths_in_epub)
  /\ imagepaths_in_epub = <<>>
  /\ upc' = "raised"
  /\ UNCHANGED <<input_kind, listing, output_arg, out_files, out_dirs, file_index,
                 imagepaths_in_epub, extracted, steps, tvars, avars, cvars>>

first_directory_name == Split(imagepaths_in_epub[1])[1]
Exists(p) == p \in out_files \cup out_dirs
RenamePath(p, before, after) ==
  IF p = before THEN after
  ELSE IF Under(p, before) THEN after \o SubSeq(p, Len(before) + 1, Len(p))
  ELSE p

\* os.rename(before_filename, after_filename); break
Rename ==
  /\ upc = "rename"
  /\ Exists(first_directory_name)
  /\ ~Exists(basename_without_ext)
  /\ out_files' = { RenamePath(p, first_directory_name, basename_without_ext) :
                      p \in out_files }
  /\ out_dirs' = { RenamePath(p, first_directory_name, basename_without_ext) :
                     p \in out_dirs }
  /\ upc' = "move"
  /\ steps' = Append(steps, "rename")
  /\ UNCHANGED <<input_kind, listing, output_arg, file_index, imagepaths_in_epub,
                 extracted, tvars, avars, cvars>>

\* except OSError: the target exists, or the system refuses for the moment
RenameRaises ==
  /\ upc = "rename"
  /\ upc' = "rename_sleep"
  /\ UNCHANGED <<input_kind, listing, output_arg, out_files, out_dirs, file_index,
                 imagepaths_in_epub, extracted, steps, tvars, avars, cvars>>

\* time.sleep(1), and the loop again
RenameAgain ==
  /\ upc = "rename_sleep"
  /\ upc' = "rename"
  /\ UNCHANGED <<input_kind, listing, output_arg, out_files, out_dirs, file_index,
                 imagepaths_in_epub, extracted, steps, tvars, avars, cvars>>

\* second_directory_name = imagepaths_in_epub[0].split('/')[1] of a path
\* with one component: IndexError
NoSecondRaises ==
  /\ upc = "move"
  /\ Len(Split(imagepaths_in_epub[1])) < 2
  /\ upc' = "raised"
  /\ UNCHANGED <<input_kind, listing, output_arg, out_files, out_dirs, file_index,
                 imagepaths_in_epub, extracted, steps, tvars, avars, cvars>>

second_directory_name == Split(imagepaths_in_epub[1])[2]
image_directory == Join(basename_without_ext, second_directory_name)
\* glob.glob(image_directory/*) and what lies below: '*' matches no name
\* that begins with a dot
Globbed(p) == Under(p, image_directory) /\ p[Len(image_directory) + 2] # 46
MovePath(p) ==
  IF Globbed(p)
  THEN Join(basename_without_ext, SubSeq(p, Len(image_directory) + 2, Len(p)))
  ELSE p

\* for filename in images_to_move: shutil.move(...)
MoveImages ==
  /\ upc = "move"
  /\ Len(Split(imagepaths_in_epub[1])) >= 2
  /\ out_files' = { MovePath(p) : p \in out_files }
  /\ out_dirs' = { MovePath(p) : p \in out_dirs }
  /\ upc' = "rmdir"
  /\ steps' = Append(steps, "move")
  /\ UNCHANGED <<input_kind, listing, output_arg, file_index, imagepaths_in_epub,
                 extracted, tvars, avars, cvars>>

\* os.rmdir(delete_directory); break: the directory is there and empty
Rmdir ==
  /\ upc = "rmdir"
  /\ image_directory \in out_dirs
  /\ ~\E p \in out_files \cup out_dirs : Under(p, image_directory)
  /\ out_dirs' = out_dirs \ {image_directory}
  /\ upc' = "loop"
  /\ steps' = Append(steps, "rmdir")
  /\ UNCHANGED <<input_kind, listing, output_arg, out_files, file_index,
                 imagepaths_in_epub, extracted, tvars, avars, cvars>>

\* except OSError: no such directory, not a directory, not empty, or the
\* system refuses for the moment
RmdirRaises ==
  /\ upc = "rmdir"
  /\ upc' = "rmdir_sleep"
  /\ UNCHANGED <<input_kind, listing, output_arg, out_files, out_dirs, file_index,
                 imagepaths_in_epub, extracted, steps, tvars, avars, cvars>>

\* time.sleep(1), and the loop again
RmdirAgain ==
  /\ upc = "rmdir_sleep"
  /\ upc' = "rmdir"
  /\ UNCHANGED <<input_kind, listing, output_arg, out_files, out_dirs, file_index,
                 imagepaths_in_epub, extracted, steps, tvars, avars, cvars>>

NextUnpack ==
  \/ Begin
  \/ Return
  \/ Skip
  \/ Open
  \/ ExtractMember
  \/ ExtractComplete
  \/ NoImageRaises
  \/ Rename
  \/ RenameRaises
  \/ RenameAgain
  \/ NoSecondRaises
  \/ MoveImages
  \/ Rmdir
  \/ RmdirRaises
  \/ RmdirAgain

SpecUnpack == UnpackInit /\ [][NextUnpack]_vars
\* the process goes on running while it has a step to take
FairSpecUnpack == SpecUnpack /\ WF_vars(NextUnpack)

(***************************************************************************)
(* Helpers of the claims.                                                  *)
(***************************************************************************)
Has(s, S) == \E i \in 1..Len(s) : s[i] \in S
\* w stands in s from offset i on
OccursAt(w, s, i) == i + Len(w) <= Len(s) /\ \A j \in 1..Len(w) : s[i + j] = w[j]
Occurs(w, s) == \E i \in 0..Len(s) : OccursAt(w, s, i)
DotEpub == <<46, 101, 112, 117, 98>>
UnsafeChars == {60, 62, 58, 34, 47, 92, 124, 33, 63, 42}     \* < > : " / \ | ! ? *
FullwidthAlnumChars == (65313..65338) \cup (65345..65370) \cup (65296..65305)
FullwidthBracketChars == {65288, 65289}                       \* （ ）

(***************************************************************************)
(* C1.  Titles made of the unsafe symbols, of full-width letters, digits   *)
(* and brackets, and of text the later stages rewrite.                     *)
(***************************************************************************)
MaxSafe == 2
SafeFrags ==
  { <<c>> : c \in UnsafeChars \cup FullwidthBracketChars
                  \cup {65313, 65338, 65345, 65370, 65296, 65305} }
  \cup { <<32>>, DotEpub, <<22769>>, <<9312>>,        \* space .epub 壱 ①
         <<65288, 65297, 65289>>,                      \* （１）
         <<12304, 65313, 20184, 12365, 12305>>,        \* 【Ａ付き】
         <<60, 12473, 62>> }                           \* <ス>
SafeTitles == Words(SafeFrags, MaxSafe)
SpecSafe == TitleInit(SafeTitles) /\ [][NextTitle]_vars

\* C1: once the full-width letters and digits (stage 1), the unsafe symbols
\* (stage 2) and the full-width round brackets (stage 3) are rewritten, no
\* later stage brings one of them back: the result of format_book_title
\* holds none of them.
C1_NoUnsafeNoFullwidth ==
  /\ stage >= 1 => ~Has(book_title, FullwidthAlnumChars)
  /\ stage >= 2 => ~Has(book_title, UnsafeChars)
  /\ stage >= 3 => ~Has(book_title, FullwidthBracketChars)
C1_Witness ==
  /\ stage = 16
  /\ Has(title, UnsafeChars)
  /\ Has(title, FullwidthAlnumChars)
  /\ Has(title, FullwidthBracketChars)
  /\ Len(book_title) < Len(title)

(***************************************************************************)
(* C10.  Titles made of several kinds of whitespace, of colons (which      *)
(* become spaces), of numbering markers (which are rewritten with spaces   *)
(* around them) and of the extension.                                      *)
(***************************************************************************)
MaxSpace == 3
SpaceFrags ==
  { <<32>>, <<9>>, <<12288>>, <<58>>, <<84>>, <<49>>, <<9312>>, <<22769>>,
    <<24059>>, DotEpub }            \* space tab U+3000 : T 1 ① 壱 巻 .epub
SpaceTitles == Words(SpaceFrags, MaxSpace)
SpecSpace == TitleInit(SpaceTitles) /\ [][NextTitle]_vars

\* the characters str.isspace() holds of
WhitespaceChars ==
  (9..13) \cup (28..32) \cup {133, 160, 5760} \cup (8192..8202)
  \cup {8232, 8233, 8239, 8287, 12288}

\* C10: in the result of format_book_title every whitespace character is an
\* ASCII space, no two whitespace characters are adjacent, and none stands
\* immediately before an occurrence of '.epub'.
C10_SingleSpaces ==
  stage = 16 =>
    /\ \A i \in 1..Len(book_title) :
         book_title[i] \in WhitespaceChars => book_title[i] = 32
    /\ \A i \in 1..(Len(book_title) - 1) :
         ~(book_title[i] \in WhitespaceChars /\ book_title[i + 1] \in WhitespaceChars)
    /\ \A i \in 1..Len(book_title) :
         book_title[i] \in WhitespaceChars => ~OccursAt(DotEpub, book_title, i)
C10_Witness ==
  /\ stage = 16
  /\ \E i \in 1..(Len(title) - 1) :
       /\ title[i] \in WhitespaceChars \ {32}
       /\ title[i + 1] \in WhitespaceChars
       /\ OccursAt(DotEpub, title, i + 1)
  /\ Occurs(DotEpub, book_title)

(***************************************************************************)
(* C6.  Titles in canonical form: text, single characters that are         *)
(* rewritten to a space, padded and unpadded numbers, the volume marker     *)
(* and the extension.                                                      *)
(***************************************************************************)
MaxCanonical == 4
CanonicalFrags ==
  { <<84>>, <<32>>, <<58>>, <<49>>, <<48>>, <<24059>>, DotEpub }   \* T space : 1 0 巻 .epub
CanonicalTitles == Words(CanonicalFrags, MaxCanonical)
SpecCanonical == TitleInit(CanonicalTitles) /\ [][NextTitle]_vars

AsciiDigits == 48..57
BracketChars == {40, 41, 60, 62, 91, 93, 123, 125, 12296, 12297, 12304, 12305}
FullwidthChars == 65281..65374
NumberSymbolChars ==
  {22769, 24336, 21442, 32902, 20237, 38520, 28422, 25420, 29590, 25342, 20160}
  \cup (9312..9320) \cup (9332..9340) \cup (9352..9360) \cup (9461..9469)
\* from offset i on: an optional 巻, whitespace, '.epub'
RECURSIVE ExtensionFollows(_, _)
ExtensionFollows(s, i) ==
  \/ OccursAt(DotEpub, s, i)
  \/ i < Len(s) /\ s[i + 1] \in WhitespaceChars /\ ExtensionFollows(s, i + 1)
\* a digit run of one digit before the extension
UnpaddedBeforeExtension(s) ==
  \E i \in 1..Len(s) :
    /\ s[i] \in AsciiDigits
    /\ i = 1 \/ s[i - 1] \notin AsciiDigits
    /\ \/ ExtensionFollows(s, i)
       \/ i < Len(s) /\ s[i + 1] = 24059 /\ ExtensionFollows(s, i + 1)
Canonical(s) ==
  /\ ~Has(s, FullwidthChars)
  /\ ~Has(s, BracketChars)
  /\ ~Has(s, NumberSymbolChars)
  /\ ~UnpaddedBeforeExtension(s)

\* C6: on a title in canonical form (no full-width character, no bracket, no
\* raw numbering marker) format_book_title is idempotent: formatting its
\* result again gives the same result.
C6_Idempotent ==
  (stage = 16 /\ Canonical(title)) => format_book_title(book_title) = book_title
C6_Witness ==
  /\ stage = 16
  /\ Canonical(title)
  /\ Has(title, AsciiDigits)
  /\ Has(title, {58})
  /\ Occurs(DotEpub, title)
  /\ book_title # title

(***************************************************************************)
(* C7.  Authors made of the unsafe symbols, of full-width letters and      *)
(* digits, of the characters next to their ranges, and of characters that  *)
(* stay.                                                                   *)
(***************************************************************************)
MaxAuthor == 2
AuthorChars ==
  UnsafeChars
  \cup {65313, 65338, 65345, 65370, 65296, 65305}     \* Ａ Ｚ ａ ｚ ０ ９
  \cup {65312, 65339, 65344, 65371, 65295, 65306}     \* ＠ ［ ｀ ｛ ／ ：
  \cup {65, 48, 32, 33391}                            \* A 0 space 芯
FullwidthAuthor == <<65313, 65365, 65364, 65352, 65359, 65362>>   \* Ａｕｔｈｏｒ
Authors == Words({<<c>> : c \in AuthorChars}, MaxAuthor) \cup {FullwidthAuthor}
SpecAuthor == AuthorInit(Authors) /\ [][NextAuthor]_vars

ExpectedAuthorChar(c) ==
  IF c \in FullwidthAlnumChars THEN c - 65248
  ELSE IF c \in UnsafeChars THEN c + 65248
  ELSE c

C8_EveryDirectoryArchived ==
  cpc = "returned" =>
    \A n \in Names :
      tree[input_dir][n] # "none" => archives[output_dir][n] = tree[input_dir][n]

(***************************************************************************)
(* C9.  Titles with up to MaxMarkers numbering markers, of one kind or of  *)
(* several, with equal or with different values.                           *)
(***************************************************************************)
MaxMarkers == 2
MarkerFrags ==
  { <<9312>>, <<9313>>,                       \* ① ②
    <<9332>>, <<9333>>,                       \* ⑴ ⑵
    <<9352>>, <<9353>>,                       \* ⒈ ⒉
    <<9461>>, <<9462>>,                       \* ⓵ ⓶
    <<40, 49, 41, 32>>, <<40, 50, 41>>,       \* '(1) ' '(2)'
    <<22769>>, <<24336>>,                     \* 壱 弐
    <<49>>, <<50>>, <<97>>, DotEpub }
MarkerTitles == Words(MarkerFrags, MaxMarkers)
SpecMarkers == TitleInit(MarkerTitles) /\ [][NextTitle]_vars

IsDigitChar(c) == c \in Digit
IsKanjiNumeral(c) == \E k \in DOMAIN kanji_numbers : kanji_numbers[k] = c
IsNumberSymbol(c) == c \in NumberSymbolChars
\* the n-th numeral of the list has the value n, the eleventh the value 10
KanjiValue(c) ==
  LET k == CHOOSE k \in DOMAIN kanji_numbers : kanji_numbers[k] = c
  IN  IF k = 11 THEN 10 ELSE k
\* the n-th symbol of its subrange has the value n
SymbolValue(c) ==
  IF c \in 9312..9320 THEN c - 9311
  ELSE IF c \in 9332..9340 THEN c - 9331
  ELSE IF c \in 9352..9360 THEN c - 9351
  ELSE c - 9460

\* the token that stands for the marker in the matched text w
OwnToken(kind, w) ==
  LET ds == SelectSeq(w, IsDigitChar)
      kj == SelectSeq(w, IsKanjiNumeral)
      sy == SelectSeq(w, IsNumberSymbol)
  IN  CASE kind = "run" /\ ds # <<>> -> <<32>> \o Zfill2(StrOf(IntOf(ds))) \o <<32>>
        [] kind = "last" /\ ds # <<>> -> <<32>> \o Zfill2(StrOf(IntOf(ds)))
        [] kind = "kanji" /\ kj # <<>> -> <<32>> \o StrOf(KanjiValue(kj[1])) \o <<32>>
        [] kind = "symbol" /\ sy # <<>> ->
             <<32>> \o Zfill2(StrOf(SymbolValue(sy[1]))) \o <<32>>
        [] OTHER -> w

RECURSIVE OwnSplice(_, _, _, _, _)
OwnSplice(s, spans, kind, k, pos) ==
  IF k > Len(spans) THEN SubSeq(s, pos + 1, Len(s))
  ELSE SubSeq(s, pos + 1, spans[k][1])
       \o OwnToken(kind, SubSeq(s, spans[k][1] + 1, spans[k][2]))
       \o OwnSplice(s, spans, kind, k + 1, spans[k][2])

\* the rewriting of one numbering step (some marker found by search, every
\* match of the substitution pattern rewritten), each marker by its own value
OwnValues(search, sub, kind, text) ==
  IF Search(search, text) # <<>>
  THEN OwnSplice(text, SubSpans(sub, text), kind, 1, 0)
  ELSE text

OwnValueStage(k, text) ==
  CASE k = 8 -> OwnValues(ParenSearch2, ParenSub2, "last",
                          OwnValues(ParenSearch1, ParenSub1, "run", text))
    [] k = 9 -> OwnValues(KanjiSearch, KanjiSub, "kanji", text)
    [] k = 10 -> OwnValues(SymbolSearch(9312, 9320), SymbolSub(9312, 9320), "symbol", text)
    [] k = 11 -> OwnValues(SymbolSearch(9332, 9340), SymbolSub(9332, 9340), "symbol", text)
    [] k = 12 -> OwnValues(SymbolSearch(9352, 9360), SymbolSub(9352, 9360), "symbol", text)
    [] k = 13 -> OwnValues(SymbolSearch(9461, 9469), SymbolSub(9461, 9469), "symbol", text)
    [] k = 14 -> OwnValues(BareSearch, BareSub, "last", text)

\* C9: every numbering step of format_book_title (round brackets, kanji
\* numeral, the four symbol subranges, bare run before the extension) writes
\* in the place of each marker it rewrites the token of that marker's own
\* value, also when the title holds several markers of one kind.
C9_OwnValue ==
  [][\A k \in 8..14 : (stage = k - 1 /\ stage' = k) =>
        book_title' = OwnValueStage(k, book_title)]_vars

(***************************************************************************)
(* C2.  Titles with one parenthesized run of digits: text or nothing       *)
(* before it, up to MaxPad spaces around the brackets, spaces or none      *)
(* inside them, a run of up to MaxDigits digits, and after it nothing,     *)
(* further text, or the extension.                                         *)
(***************************************************************************)
MaxDigits == 3
MaxPad == 1
Pads == UNION { [1..n -> {32}] : n \in 0..MaxPad }
DigitRuns == UNION { [1..n -> {48, 49, 50}] : n \in 1..MaxDigits }
ParenTitles ==
  { pre \o a \o <<40>> \o in \o d \o in \o <<41>> \o b \o post :
      pre \in {<<>>, <<84, 105, 116, 108, 101>>},                  \* '' 'Title'
      a \in Pads, b \in Pads, in \in {<<>>, <<32>>}, d \in DigitRuns,
      post \in {<<>>, DotEpub, <<83, 117, 98>> \o DotEpub} }       \* '' '.epub' 'Sub.epub'
  \cup { <<84, 105, 116, 108, 101, 65288, 65297, 65298, 65289>> \o DotEpub,    \* 'Title（１２）.epub'
         <<84, 12288, 65288, 1635, 65289, 9, 83>> \o DotEpub }     \* 'T（٣）Sub.epub' with U+3000 and a tab
SpecParen == TitleInit(ParenTitles) /\ [][NextTitle]_vars

RECURSIVE LStrip(_)
LStrip(s) == IF s # <<>> /\ s[1] \in WhitespaceChars THEN LStrip(Tail(s)) ELSE s
RECURSIVE RStrip(_)
RStrip(s) ==
  IF s # <<>> /\ s[Len(s)] \in WhitespaceChars THEN RStrip(SubSeq(s, 1, Len(s) - 1)) ELSE s
OpenAt(s) == CHOOSE i \in 1..Len(s) : s[i] \in {40, 65288}
CloseAt(s) == CHOOSE i \in 1..Len(s) : s[i] \in {41, 65289}
\* the text before the run without the spaces next to the bracket, the text
\* after the closing bracket, and the run's number in two digits or more
BeforeRun(s) == RStrip(SubSeq(s, 1, OpenAt(s) - 1))
AfterRun(s) == SubSeq(s, CloseAt(s) + 1, Len(s))
RunNumber(s) ==
  Zfill2(StrOf(IntOf(SelectSeq(SubSeq(s, OpenAt(s) + 1, CloseAt(s) - 1), IsDigitChar))))
FollowedBySpace(s) == AfterRun(s) # <<>> /\ AfterRun(s)[1] \in WhitespaceChars

\* C2 as written: ' NN ' whenever whitespace follows the run, ' NN' directly
\* before '.epub' when the run immediately precedes the extension.
C2_AsWritten ==
  stage = 16 =>
    /\ FollowedBySpace(title) =>
         book_title = BeforeRun(title) \o <<32>> \o RunNumber(title) \o <<32>>
                      \o LStrip(AfterRun(title))
    /\ OccursAt(DotEpub, AfterRun(title), 0) =>
         book_title = BeforeRun(title) \o <<32>> \o RunNumber(title) \o AfterRun(title)

\* C2: the run, with its brackets and the spaces next to them, is replaced by
\* its decimal value in two digits or more (never truncated): as ' NN'
\* directly before '.epub' when nothing or only whitespace stands between the
\* closing bracket and '.epub', and as ' NN ' with one space on each side when
\* whitespace follows the closing bracket and something else than '.epub', or
\* the end of the title, comes after that whitespace; 'Title (1) Sub.epub'
\* gives 'Title 01 Sub.epub' and 'Title(12).epub' gives 'Title 12.epub'.
C2_PaddedRun ==
  stage = 16 =>
    /\ OccursAt(DotEpub, LStrip(AfterRun(title)), 0) =>
         book_title = BeforeRun(title) \o <<32>> \o RunNumber(title)
                      \o LStrip(AfterRun(title))
    /\ (FollowedBySpace(title) /\ ~OccursAt(DotEpub, LStrip(AfterRun(title)), 0)) =>
         book_title = BeforeRun(title) \o <<32>> \o RunNumber(title) \o <<32>>
                      \o LStrip(AfterRun(title))
    /\ title = <<84, 105, 116, 108, 101, 32, 40, 49, 41, 32, 83, 117, 98>> \o DotEpub =>
         book_title = <<84, 105, 116, 108, 101, 32, 48, 49, 32, 83, 117, 98>> \o DotEpub
    /\ title = <<84, 105, 116, 108, 101, 40, 49, 50, 41>> \o DotEpub =>
         book_title = <<84, 105, 116, 108, 101, 32, 49, 50>> \o DotEpub
C2_Witness ==
  /\ stage = 16
  /\ FollowedBySpace(title)
  /\ OccursAt(DotEpub, LStrip(AfterRun(title)), 0)
  /\ BeforeRun(title) # <<>>
  /\ Len(RunNumber(title)) = 3
  /\ book_title = BeforeRun(title) \o <<32>> \o RunNumber(title) \o DotEpub

(***************************************************************************)
(* C3.  Titles with one kanji numeral: text or nothing before it, up to    *)
(* MaxPad spaces around it, the volume marker or none, and after it        *)
(* nothing, further text, or the extension.                                *)
(***************************************************************************)
KanjiTitles ==
  { pre \o a \o <<kanji_numbers[k]>> \o b \o vol \o c \o post :
      pre \in {<<>>, <<84, 105, 116, 108, 101>>},                  \* '' 'Title'
      a \in Pads, b \in Pads, c \in Pads, k \in DOMAIN kanji_numbers,
      vol \in {<<>>, <<24059>>},                                   \* '' '巻'
      post \in {<<>>, DotEpub, <<83, 117, 98>> \o DotEpub} }       \* '' '.epub' 'Sub.epub'
SpecKanji == TitleInit(KanjiTitles) /\ [][NextTitle]_vars

KanjiAt(s) == CHOOSE i \in 1..Len(s) : IsKanjiNumeral(s[i])
BeforeKanji(s) == RStrip(SubSeq(s, 1, KanjiAt(s) - 1))
\* what follows the numeral, the volume marker and the whitespace around them
AfterKanji(s) ==
  LET rest == LStrip(SubSeq(s, KanjiAt(s) + 1, Len(s)))
  IN  IF rest # <<>> /\ rest[1] = 24059 THEN LStrip(Tail(rest)) ELSE rest
KanjiNumber(s) == StrOf(KanjiValue(s[KanjiAt(s)]))

MaxLenticular == 4
LenticularTokens ==
  { <<20184, 12365>>, <<22679, 37327, 29256>>,                    \* 付き 増量版
    <<28961, 26009>>, <<28961, 26009, 29256>>,                    \* 無料 無料版
    <<20986, 29256>>, <<35468, 29256>>,                           \* 出版 誌版
    <<29305, 21029>>, <<29305, 21029, 29256>>,                    \* 特別 特別版
    <<29305, 20856, 20184>>, <<29305, 20856, 20184, 12365>>,      \* 特典付 特典付き
    <<28459, 30011, 20184>>, <<28459, 30011, 20184, 12365>> }     \* 漫画付 漫画付き
LenticularFrags ==
  { <<12304>>, <<12305>>, <<97>>, <<10>>, <<20184, 12365>>, <<28961, 26009>>, <<29256>> }
TitleEpub == <<84, 105, 116, 108, 101>> \o DotEpub
LenticularTitles ==
  Words(LenticularFrags, MaxLenticular)
  \cup { <<12304>> \o pre \o tok \o <<12305>> \o TitleEpub :
           pre \in {<<>>, <<97>>, <<38651, 23376, 29256, 38480, 23450>>},
           tok \in LenticularTokens }
SpecLenticular == TitleInit(LenticularTitles) /\ [][NextTitle]_vars

EndsWith(w, s) == Len(w) <= Len(s) /\ OccursAt(w, s, Len(s) - Len(w))
\* s[q..e] is a span 【…】 with no 】 inside
LenticularSpan(s, q, e) ==
  /\ q < e
  /\ s[q] = 12304
  /\ s[e] = 12305
  /\ \A i \in (q + 1)..(e - 1) : s[i] # 12305
SpanContent(s, q, e) == SubSeq(s, q + 1, e - 1)
\* the characters of s that stand in a span Q holds of
InSpans(s, Q(_, _, _)) ==
  { i \in 1..Len(s) : \E q \in 1..i : \E e \in i..Len(s) : Q(s, q, e) }
CountOf(s, c) == Cardinality({ i \in 1..Len(s) : s[i] = c })
WithoutSpan(s, q, e) == SubSeq(s, 1, q - 1) \o SubSeq(s, e + 1, Len(s))

\* the span of the claim as written: its content is not empty and ends with
\* a token, the token alone included
TokenEnded(s, q, e) ==
  /\ LenticularSpan(s, q, e)
  /\ \E tok \in LenticularTokens : EndsWith(tok, SpanContent(s, q, e))

TokenAfterText(s, q, e) ==
  /\ LenticularSpan(s, q, e)
  /\ \A i \in (q + 1)..(e - 1) : s[i] # 10
  /\ \E tok \in LenticularTokens :
       /\ EndsWith(tok, SpanContent(s, q, e))
       /\ Len(SpanContent(s, q, e)) > Len(tok)

MaxLabel == 4
LabelTokenWords ==
  { <<66, 79, 79, 75, 83>>,   \* BOOKS
    <<67, 114, 101, 97, 116, 105, 118, 101>>,   \* Creative
    <<68, 88>>,   \* DX
    <<68, 88, 29256>>,   \* DX版
    <<71, 65, 77, 69, 83>>,   \* GAMES
    <<74, 79, 75, 69, 82>>,   \* JOKER
    <<78, 101, 116, 119, 111, 114, 107>>,   \* Network
    <<78, 79, 86, 69, 76, 83>>,   \* NOVELS
    <<78, 79, 86, 69, 76, 32, 48>>,   \* NOVEL 0
    <<80, 117, 98, 108, 105, 115, 104, 105, 110, 103>>,   \* Publishing
    <<12456, 12452, 12472>>,   \* エイジ
    <<12456, 12463, 12473, 12488, 12521>>,   \* エクストラ
    <<12467, 12511, 12483, 12463>>,   \* コミック
    <<12471, 12522, 12540, 12474>>,   \* シリーズ
    <<12473>>,   \* ス
    <<12494, 12505, 12523, 12474>>,   \* ノベルズ
    <<12521, 12494, 12505>>,   \* ラノベ
    <<38480, 23450, 29256>>,   \* 限定版
    <<23567, 35500>>,   \* 小説
    <<26032, 35013, 29256>>,   \* 新装版
    <<38651, 23376, 29256>>,   \* 電子版
    <<29305, 20856, 20184, 12365>>,   \* 特典付き
    <<29305, 21029, 29256>>,   \* 特別版
    <<25991, 33464>>,   \* 文芸
    <<25991, 24235>>,   \* 文庫
    <<25991, 24235, 74>>,   \* 文庫J
    <<32232, 38598, 37096>> }   \* 編集部
LabelFrags == { <<40>>, <<41>>, <<65308>>, <<97>>, <<12473>>, <<10>> }   \* ( ) ＜ a ス LF
LabelTitles ==
  Words(LabelFrags, MaxLabel)
  \cup { <<open>> \o pre \o tok \o <<close>> \o TitleEpub :
           open \in {40, 65308, 12296, 60, 65288},        \* ( ＜ 〈 < （
           pre \in {<<>>, <<97>>},
           tok \in LabelTokenWords,
           close \in {41, 65310} }                         \* ) ＞
  \cup { <<12304, 40, 97, 20184, 12365, 12305, 12473, 41>>,     \* 【(a付き】ス)
         <<40, 12304, 97, 12473, 41, 20184, 12365, 12305>>,     \* (【aス)付き】
         <<40, 12473, 97, 41>> \o TitleEpub,                    \* (スa)Title.epub
         <<65308, 97, 68, 88, 29256, 65310>> \o TitleEpub }     \* ＜aDX版＞Title.epub
SpecLabel == TitleInit(LabelTitles) /\ [][NextTitle]_vars

\* the characters that are or become a closing or an opening bracket of the
\* label pattern
ClosingChars == {41, 65289, 62, 65310, 12297}      \* ) ） > ＞ 〉
OpeningChars == {40, 65288, 60, 65308, 12296}      \* ( （ < ＜ 〈
\* s[q..e] is a span opened by ( or ＜ and closed by ) or ＞, no closing
\* bracket inside
LabelSpan(s, q, e) ==
  /\ q < e
  /\ s[q] \in {40, 65308}
  /\ s[e] \in {41, 65310}
  /\ \A i \in (q + 1)..(e - 1) : s[i] \notin ClosingChars

\* the span of the claim as written: a token stands somewhere in the
\* content (here only contents of one line without lenticular brackets)
TokenInside(s, q, e) ==
  /\ LabelSpan(s, q, e)
  /\ \A i \in (q + 1)..(e - 1) : s[i] \notin {12304, 12305, 10}
  /\ \E tok \in LabelTokenWords : Occurs(tok, SpanContent(s, q, e))

TokenLast(s, q, e) ==
  /\ LabelSpan(s, q, e)
  /\ \A i \in (q + 1)..(e - 1) : s[i] \notin {12304, 12305, 10}
  /\ \E tok \in LabelTokenWords : EndsWith(tok, SpanContent(s, q, e))

AllSteps == <<"open", "extract", "rename", "move", "rmdir">>
\* the handling of the file last opened is over
HandlingOver == upc \in {"loop", "returned", "raised"} /\ steps # <<>>

\* C11: for each EPub file the steps run in the order extract all images,
\* rename the first directory, move the images up, delete the image
\* directory; no step starts before the one before it has succeeded (a
\* rename or rmdir that raised is tried again, never skipped); and when the
\* handling of the file is over, all four steps have run and the image
\* directory is deleted.
C11_OrderedRetry ==
  /\ steps = SubSeq(AllSteps, 1, Len(steps))
  /\ upc \in {"rename", "rename_sleep"} =>
       (steps = SubSeq(AllSteps, 1, 2) /\ extracted = Len(imagepaths_in_epub))
  /\ upc = "move" => steps = SubSeq(AllSteps, 1, 3)
  /\ upc \in {"rmdir", "rmdir_sleep"} => steps = SubSeq(AllSteps, 1, 4)
  /\ HandlingOver => (steps = AllSteps /\ image_directory \notin out_dirs)

\* C11, the retry loops alone: in a run in which every rename and every
\* rmdir that raised is followed by one that succeeds, a file whose images
\* are extracted is handled to the end, unless an IndexError ends the run.
C11_RetriesLeadToEnd ==
  ((upc = "rename_sleep" ~> upc = "move") /\ (upc = "rmdir_sleep" ~> upc = "loop"))
  => (upc = "rename" ~> ((upc = "loop" /\ steps = AllSteps) \/ upc = "raised"))

(***************************************************************************)
(* C12.  Titles of up to MaxFrame pieces: bracket pairs of both families   *)
(* whose content qualifies for removal and pairs whose content does not,   *)
(* title text, and the extension.                                          *)
(***************************************************************************)
MaxFrame == 3
FrameFrags ==
  { <<12304, 97, 12305>>, <<12304, 97, 20184, 12365, 12305>>,     \* 【a】 【a付き】
    <<40, 97, 41>>, <<40, 12473, 41>>,                             \* (a) (ス)
    <<65308, 97>>, <<12473, 65310>>,                               \* ＜a ス＞
    <<84>>, DotEpub }                                              \* T .epub
FrameTitles == Words(FrameFrags, MaxFrame)
SpecFrame == TitleInit(FrameTitles) /\ [][NextTitle]_vars

\* s[q..e] is one pair of label brackets, no closing bracket and no line
\* feed inside, whose content ends with a label token
QualifyingLabel(s, q, e) ==
  /\ q < e
  /\ s[q] \in {40, 65308, 12296}
  /\ s[e] \in {41, 65310, 12297}
  /\ \A i \in (q + 1)..(e - 1) : s[i] \notin {41, 65310, 12297, 10}
  /\ \E tok \in LabelTokenWords : EndsWith(tok, SpanContent(s, q, e))
\* the characters of s from the k-th on whose position is not in I
RECURSIVE KeptFrom(_, _, _)
KeptFrom(s, I, k) ==
  IF k > Len(s) THEN <<>>
  ELSE (IF k \in I THEN <<>> ELSE <<s[k]>>) \o KeptFrom(s, I, k + 1)
\* a is b with some characters left out
RECURSIVE IsSubseq(_, _)
IsSubseq(a, b) ==
  IF a = <<>> THEN TRUE
  ELSE IF b = <<>> THEN FALSE
  ELSE IF a[1] = b[1] THEN IsSubseq(Tail(a), Tail(b))
  ELSE IsSubseq(a, Tail(b))

\* C12: the two annotation steps delete only brackets and content of single
\* bracket pairs whose content qualifies: the characters that stand outside
\* all such pairs before the step are all there, in their order, after it.
C12_OnlyQualifyingPairsDeleted ==
  [][/\ (stage = 3 /\ stage' = 4) =>
          IsSubseq(KeptFrom(book_title, InSpans(book_title, TokenAfterText), 1),
                   book_title')
     /\ (stage = 4 /\ stage' = 5) =>
          IsSubseq(KeptFrom(book_title, InSpans(book_title, QualifyingLabel), 1),
                   book_title')]_vars

====
